---- MODULE Spec2Model ----
(***************************************************************************)
(* Model of utilities.py: unzip_file, move_to_project, csv_to_df and       *)
(* read_kaggle_dataset over an explicit file system.                       *)
(*                                                                         *)
(* A path is a sequence of one-character strings, so that the string       *)
(* operations of the code (lower, endswith, startswith, split, splitext,   *)
(* basename, join) are computed and not assumed.  The file system is the   *)
(* pair (files, dirs): files maps the path of every regular file to its    *)
(* content, dirs is the set of directory paths.  Paths are relative to the *)
(* working directory, whose own path is the empty sequence.                *)
(*                                                                         *)
(* Each action is one complete call of a public function on the current   *)
(* file system; last records the call, the file system it started from    *)
(* and its outcome.  What the environment decides is chosen freely: the   *)
(* entry os.listdir returns first, the answer of requests.get, the answer *)
(* of kagglehub.dataset_download (which is taken to return a path of the  *)
(* existing file system or to raise).  Archive members are regular files  *)
(* with clean relative names; there are no symbolic links.                *)
(***************************************************************************)
EXTENDS Integers, Sequences, FiniteSets, TLC

VARIABLES files, dirs, last, calls

vars == <<files, dirs, last, calls>>

\* number of top-level calls explored in one behaviour
MaxCalls == 2

----------------------------------------------------------------------------
(* Strings *)

\* Python's None, distinct from every string (and from the empty string)
None == <<"<None>">>

Sep == "/"

Upper == <<"A","B","C","D","E","F","G","H","I","J","K","L","M",
           "N","O","P","Q","R","S","T","U","V","W","X","Y","Z">>
Lower == <<"a","b","c","d","e","f","g","h","i","j","k","l","m",
           "n","o","p","q","r","s","t","u","v","w","x","y","z">>

LowerChar(c) ==
    IF \E i \in 1..26 : Upper[i] = c
    THEN Lower[CHOOSE i \in 1..26 : Upper[i] = c]
    ELSE c

\* str.lower()
StrLower(s) == [i \in 1..Len(s) |-> LowerChar(s[i])]

\* str.endswith(suf)
EndsWith(s, suf) ==
    /\ Len(s) >= Len(suf)
    /\ SubSeq(s, Len(s) - Len(suf) + 1, Len(s)) = suf

\* str.startswith(pre)
StartsWith(s, pre) ==
    /\ Len(s) >= Len(pre)
    /\ SubSeq(s, 1, Len(pre)) = pre

\* index of the last occurrence of character c in s, 0 when there is none
RFind(s, c) ==
    IF \E i \in 1..Len(s) : s[i] = c
    THEN CHOOSE i \in 1..Len(s) : s[i] = c /\ \A j \in (i+1)..Len(s) : s[j] # c
    ELSE 0

\* index of the first occurrence of character c in s, 0 when there is none
Find(s, c) ==
    IF \E i \in 1..Len(s) : s[i] = c
    THEN CHOOSE i \in 1..Len(s) : s[i] = c /\ \A j \in 1..(i-1) : s[j] # c
    ELSE 0

\* s.split(c)[0]: the part of s before the first c, all of s when c is absent
SplitFirst(s, c) ==
    IF Find(s, c) = 0 THEN s ELSE SubSeq(s, 1, Find(s, c) - 1)

DotZip == <<".", "z", "i", "p">>
HttpPrefix == <<"h","t","t","p",":","/","/">>
HttpsPrefix == <<"h","t","t","p","s",":","/","/">>

----------------------------------------------------------------------------
(* os.path *)

\* os.path.basename: what follows the last separator
Basename(p) == SubSeq(p, RFind(p, Sep) + 1, Len(p))

\* os.path.dirname: what precedes the last separator (no root paths here)
Dirname(p) ==
    IF RFind(p, Sep) = 0 THEN <<>> ELSE SubSeq(p, 1, RFind(p, Sep) - 1)

\* os.path.join(a, b)
Join(a, b) ==
    IF StartsWith(b, <<Sep>>) THEN b
    ELSE IF a = <<>> \/ EndsWith(a, <<Sep>>) THEN a \o b
    ELSE a \o <<Sep>> \o b

\* os.path.splitext(p)[0]: the extension starts at the last dot of the
\* basename, unless only dots precede that dot in the basename
SplitextRoot(p) ==
    LET sepIndex == RFind(p, Sep)
        dotIndex == RFind(p, ".")
    IN  IF dotIndex > sepIndex
           /\ \E k \in (sepIndex + 1)..(dotIndex - 1) : p[k] # "."
        THEN SubSeq(p, 1, dotIndex - 1)
        ELSE p

\* os.path.splitext(p)[1]
SplitextExt(p) == SubSeq(p, Len(SplitextRoot(p)) + 1, Len(p))

IsFile(f, p) == p \in DOMAIN f
IsDir(d, p) == p \in d
Exists(f, d, p) == IsFile(f, p) \/ IsDir(d, p)

\* the proper ancestors of p: its prefixes that end right before a separator
Ancestors(p) ==
    { SubSeq(p, 1, i - 1) : i \in { j \in 2..Len(p) : p[j] = Sep } }

\* os.listdir(d): the names of the entries, files and directories alike,
\* directly inside directory d
Listdir(f, d, p) ==
    { Basename(e) : e \in { x \in DOMAIN f \cup d : x # <<>> /\ Dirname(x) = p /\ x # p } }

----------------------------------------------------------------------------
(* File contents, errors, results *)

\* Plain content: kind "csv" parses as delimited text, kind "bin" does not.
Plain(k, n) == [kind |-> k, data |-> n, members |-> <<>>]

\* A zip archive: the sequence of its members (name, data), in archive order.
Archive(n, ms) == [kind |-> "zip", data |-> n, members |-> ms]

Member(nm, n) == [name |-> nm, data |-> n]

\* The table pandas builds from content c.
Table(c) == <<"<table>", c.data>>

NoErr == "none"

\* The result of one call: the file system it leaves, the exception it raised
\* (NoErr when it returned), the value it returned, and what it did on the
\* way: whether the archive was opened for extraction, how many HTTP GETs
\* were issued, which paths were handed to the CSV parser, which path was
\* opened for writing, and (for the orchestrator) the steps that ran.
Out(f, d, e, r, ex, g, ps, w, tr) ==
    [files |-> f, dirs |-> d, err |-> e, ret |-> r, extracted |-> ex,
     gets |-> g, parsed |-> ps, wrote |-> w, trace |-> tr]

\* The exception class of an error: ValueError is raised from three places
\* with three messages, which the error value keeps apart.
ErrClass(e) ==
    IF e \in {"ValueError:notzip", "ValueError:download", "ValueError:input"}
    THEN "ValueError"
    ELSE e

----------------------------------------------------------------------------
(* Library calls on the file system *)

\* os.makedirs(p, exist_ok=True)
Makedirs(f, d, p) ==
    IF p = <<>> THEN [dirs |-> d, err |-> "FileNotFoundError"]
    ELSE IF IsDir(d, p) THEN [dirs |-> d, err |-> NoErr]
    ELSE IF IsFile(f, p) THEN [dirs |-> d, err |-> "FileExistsError"]
    ELSE IF \E a \in Ancestors(p) : IsFile(f, a)
         THEN [dirs |-> d, err |-> "NotADirectoryError"]
    ELSE [dirs |-> d \cup {p} \cup Ancestors(p), err |-> NoErr]

\* open(p, "wb") followed by write(c)
OpenWrite(f, d, p, c) ==
    IF p = <<>> THEN [files |-> f, err |-> "FileNotFoundError"]
    ELSE IF IsDir(d, p) \/ EndsWith(p, <<Sep>>)
         THEN [files |-> f, err |-> "IsADirectoryError"]
    ELSE IF Dirname(p) # <<>> /\ IsFile(f, Dirname(p))
         THEN [files |-> f, err |-> "NotADirectoryError"]
    ELSE IF Dirname(p) # <<>> /\ ~IsDir(d, Dirname(p))
         THEN [files |-> f, err |-> "FileNotFoundError"]
    ELSE [files |-> (p :> c) @@ f, err |-> NoErr]

\* shutil.copy(src, dst): a directory dst means "into that directory";
\* copying a file onto itself and copying a directory are errors.
ShutilCopy(f, d, src, dst) ==
    LET real == IF IsDir(d, dst) THEN Join(dst, Basename(src)) ELSE dst
    IN  IF Exists(f, d, src) /\ real = src
        THEN [files |-> f, err |-> "SameFileError", dst |-> real]
        ELSE IF IsDir(d, src)
        THEN [files |-> f, err |-> "IsADirectoryError", dst |-> real]
        ELSE IF ~IsFile(f, src)
        THEN [files |-> f, err |-> "FileNotFoundError", dst |-> real]
        ELSE LET w == OpenWrite(f, d, real, f[src])
             IN  [files |-> w.files, err |-> w.err, dst |-> real]

\* ZipFile.extractall(dir): the members are written in archive order, each
\* after its missing parent directories were created; the first member that
\* cannot be written ends the extraction and leaves the earlier ones behind.
RECURSIVE ExtractAll(_, _, _, _)
ExtractAll(f, d, dir, ms) ==
    IF ms = <<>> THEN [files |-> f, dirs |-> d, err |-> NoErr]
    ELSE LET m == Head(ms)
             target == Join(dir, m.name)
             upper == Dirname(target)
             mk == IF upper # <<>> /\ ~Exists(f, d, upper)
                   THEN Makedirs(f, d, upper)
                   ELSE [dirs |-> d, err |-> NoErr]
             w == OpenWrite(f, mk.dirs, target, Plain("csv", m.data))
         IN  IF mk.err # NoErr
             THEN [files |-> f, dirs |-> mk.dirs, err |-> mk.err]
             ELSE IF w.err # NoErr
             THEN [files |-> f, dirs |-> mk.dirs, err |-> w.err]
             ELSE ExtractAll(w.files, mk.dirs, dir, Tail(ms))

\* pd.read_csv(p) on an existing file
ReadCsv(f, p) ==
    IF f[p].kind = "csv"
    THEN [table |-> Table(f[p]), err |-> NoErr]
    ELSE [table |-> None, err |-> "ParserError"]

----------------------------------------------------------------------------------------------------------------------------------------
(* utilities.py *)

NoLog == <<>>

Raise(f, d, e) == Out(f, d, e, None, FALSE, 0, NoLog, None, NoLog)

\* Python truth of an optional string: None and "" are both false
Truthy(s) == s # None /\ s # <<>>

\* unzip_file with its two checks in the other order
unzip_validate_swapped(f, zip_path) ==
    IF ~EndsWith(StrLower(zip_path), DotZip) THEN "ValueError:notzip"
    ELSE IF ~IsFile(f, zip_path) THEN "FileNotFoundError"
    ELSE NoErr

\* unzip_file, "Check file validity"
unzip_validate(f, zip_path) ==
    IF ~IsFile(f, zip_path) THEN "FileNotFoundError"
    ELSE IF ~EndsWith(StrLower(zip_path), DotZip) THEN "ValueError:notzip"
    ELSE NoErr

\* unzip_file, "Default extraction directory"
unzip_target(zip_path, extract_dir) ==
    IF extract_dir = None THEN SplitextRoot(zip_path) ELSE extract_dir

\* unzip_file(zip_path, extract_dir=None)
unzip_file(f, d, zip_path, extract_dir) ==
    LET chk == unzip_validate(f, zip_path)
        dir == unzip_target(zip_path, extract_dir)
        mk == Makedirs(f, d, dir)
        ex == ExtractAll(f, mk.dirs, dir, f[zip_path].members)
    IN  IF chk # NoErr THEN Raise(f, d, chk)
        ELSE IF mk.err # NoErr THEN Raise(f, mk.dirs, mk.err)
        ELSE IF f[zip_path].kind # "zip" THEN Raise(f, mk.dirs, "BadZipFile")
        ELSE IF ex.err # NoErr
        THEN Out(ex.files, ex.dirs, ex.err, None, TRUE, 0, NoLog, None, NoLog)
        ELSE Out(ex.files, ex.dirs, NoErr, dir, TRUE, 0, NoLog, None, NoLog)

Selection(e, nm, src) == [err |-> e, name |-> nm, src_file |-> src]

\* a selection that also takes a single file as the source
select_file_or_dir(f, d, src_dir, filename, first) ==
    IF IsFile(f, src_dir)
    THEN IF Truthy(filename) /\ filename # Basename(src_dir)
         THEN Selection("FileNotFoundError", None, None)
         ELSE Selection(NoErr, Basename(src_dir), src_dir)
    ELSE IF ~IsDir(d, src_dir)
    THEN Selection("FileNotFoundError", None, None)
    ELSE IF Listdir(f, d, src_dir) = {}
    THEN Selection("FileNotFoundError", None, None)
    ELSE IF Truthy(filename)
    THEN IF filename \notin Listdir(f, d, src_dir)
         THEN Selection("FileNotFoundError", None, None)
         ELSE Selection(NoErr, filename, Join(src_dir, filename))
    ELSE Selection(NoErr, first, Join(src_dir, first))

\* move_to_project up to src_file: the checks of the source, and
\* "Determine which file to move"; first is the entry os.listdir happens to
\* return first.
select_file(f, d, src_dir, filename, first) ==
    IF ~IsDir(d, src_dir)
    THEN Selection("FileNotFoundError", None, None)
    ELSE IF Listdir(f, d, src_dir) = {}
    THEN Selection("FileNotFoundError", None, None)
    ELSE IF Truthy(filename)
    THEN IF filename \notin Listdir(f, d, src_dir)
         THEN Selection("FileNotFoundError", None, None)
         ELSE Selection(NoErr, filename, Join(src_dir, filename))
    ELSE Selection(NoErr, first, Join(src_dir, first))

\* move_to_project(src_dir, target_dir, filename=None)
move_to_project(f, d, src_dir, target_dir, filename, first) ==
    LET sel == select_file(f, d, src_dir, filename, first)
        mk == Makedirs(f, d, target_dir)
        dest_file == Join(target_dir, sel.name)
        cp == ShutilCopy(f, mk.dirs, sel.src_file, dest_file)
    IN  IF sel.err # NoErr THEN Raise(f, d, sel.err)
        ELSE IF mk.err # NoErr THEN Raise(f, mk.dirs, mk.err)
        ELSE IF cp.err # NoErr THEN Raise(f, mk.dirs, cp.err)
        ELSE Out(cp.files, mk.dirs, NoErr, dest_file, FALSE, 0, NoLog, cp.dst, NoLog)

\* The answer of requests.get: the transfer raised (exc), or a response with
\* a status code and a body.
Response(x, st, c) == [exc |-> x, status |-> st, content |-> c]

NoResponse == Response(FALSE, 0, Plain("bin", "d0"))

\* response.raise_for_status() raises for the 4xx and 5xx codes
RaisesForStatus(resp) == resp.status >= 400 /\ resp.status < 600

IsUrl(s) == StartsWith(s, HttpPrefix) \/ StartsWith(s, HttpsPrefix)

\* the file name taken from the URL with its query string left in
url_filename_with_query(url) == Basename(url)

\* csv_to_df, "Extract filename from URL"
url_filename(url) == Basename(SplitFirst(url, "?"))

\* a loader that takes only files with the .csv extension
local_csv_only(f, path) ==
    IsFile(f, path) /\ StrLower(SplitextExt(path)) = <<".", "c", "s", "v">>

\* csv_to_df, "If input is a local file"
local_loadable(f, path) == IsFile(f, path)

\* csv_to_df(path_or_url, download_dir="data"); resp is what requests.get
\* answers if it is called.
csv_to_df(f, d, path_or_url, download_dir, resp) ==
    IF IsUrl(path_or_url)
    THEN LET mk == Makedirs(f, d, download_dir)
             local_path == Join(download_dir, url_filename(path_or_url))
             w == OpenWrite(f, mk.dirs, local_path, resp.content)
             rd == ReadCsv(w.files, local_path)
         IN  IF mk.err # NoErr THEN Raise(f, mk.dirs, mk.err)
             ELSE IF resp.exc \/ RaisesForStatus(resp)
             THEN Out(f, mk.dirs, "ValueError:download", None, FALSE, 1, NoLog, None, NoLog)
             ELSE IF w.err # NoErr
             THEN Out(f, mk.dirs, "ValueError:download", None, FALSE, 1, NoLog, None, NoLog)
             ELSE Out(w.files, mk.dirs, rd.err, rd.table, FALSE, 1,
                      <<local_path>>, local_path, NoLog)
    ELSE IF local_loadable(f, path_or_url)
    THEN LET rd == ReadCsv(f, path_or_url)
         IN  Out(f, d, rd.err, rd.table, FALSE, 0, <<path_or_url>>, None, NoLog)
    ELSE Raise(f, d, "ValueError:input")

\* One step of the orchestrator: which component ran, on what, and how it
\* ended.
Step(nm, a, r, e) == [step |-> nm, arg |-> a, ret |-> r, err |-> e]

\* What kagglehub.dataset_download answers: it raises, or returns a path.
KaggleAnswer(e, p) == [err |-> e, path |-> p]

DataDir == <<"d","a","t","a">>

\* the default of target: os.path.join(os.getcwd(), "data")
DefaultTarget == Join(<<>>, DataDir)

\* an orchestrator that loads the download path instead of the copied file
read_kaggle_dataset_loads_download(f, d, url, target, kg, first) ==
    LET st1 == Step("download", url, kg.path, kg.err)
        mv == move_to_project(f, d, kg.path, target, None, first)
        st2 == Step("locate", kg.path, mv.ret, mv.err)
        ld == csv_to_df(mv.files, mv.dirs, kg.path, DataDir, NoResponse)
        st3 == Step("load", kg.path, ld.ret, ld.err)
    IN  IF kg.err # NoErr
        THEN Out(f, d, kg.err, None, FALSE, 0, NoLog, None, <<st1>>)
        ELSE IF mv.err # NoErr
        THEN Out(mv.files, mv.dirs, mv.err, None, FALSE, 0, NoLog, None, <<st1, st2>>)
        ELSE Out(ld.files, ld.dirs, ld.err, ld.ret, FALSE, ld.gets, ld.parsed,
                 mv.wrote, <<st1, st2, st3>>)

\* read_kaggle_dataset(url, target); kg is the answer of the download
\* service, first the entry os.listdir returns first in move_to_project.
read_kaggle_dataset(f, d, url, target, kg, first) ==
    LET st1 == Step("download", url, kg.path, kg.err)
        mv == move_to_project(f, d, kg.path, target, None, first)
        st2 == Step("locate", kg.path, mv.ret, mv.err)
        ld == csv_to_df(mv.files, mv.dirs, mv.ret, DataDir, NoResponse)
        st3 == Step("load", mv.ret, ld.ret, ld.err)
    IN  IF kg.err # NoErr
        THEN Out(f, d, kg.err, None, FALSE, 0, NoLog, None, <<st1>>)
        ELSE IF mv.err # NoErr
        THEN Out(mv.files, mv.dirs, mv.err, None, FALSE, 0, NoLog, None, <<st1, st2>>)
        ELSE Out(ld.files, ld.dirs, ld.err, ld.ret, FALSE, ld.gets, ld.parsed,
                 mv.wrote, <<st1, st2, st3>>)

----------------
(* The file system the calls start from, and the arguments they are given *)

CsvName == <<"c",".","c","s","v">>                  \* c.csv
TxtName == <<"f",".","t","x","t">>                  \* f.txt
SubName == <<"d">>                                   \* d
OneDir == <<"s","1">>       \* holds exactly one file, directly
DeepDir == <<"s","2">>      \* holds exactly one file, one level down
HollowDir == <<"s","3">>    \* holds an empty subdirectory and nothing else
MixedDir == <<"s","4">>     \* holds two files and an empty subdirectory
EmptyDir == <<"s","5">>     \* holds nothing
OutDir == <<"o">>           \* an existing destination
NewDir == <<"t">>           \* a destination that does not exist yet
Missing == <<"q">>          \* no such path
ZipA == <<"a",".","z","i","p">>                     \* a.zip
ZipUpper == <<"B",".","Z","I","P">>                 \* B.ZIP
ZipHidden == <<".","z","i","p">>                    \* .zip
ZipMissing == <<"q",".","z","i","p">>               \* q.zip, no such file
UrlQuery == <<"h","t","t","p",":","/","/","h","/","c",".","c","s","v","?","k">>
UrlSecure == <<"h","t","t","p","s",":","/","/","h","/","f",".","t","x","t">>
UrlSlash == <<"h","t","t","p",":","/","/","h","/">>
DatasetId == <<"k">>

InitDirs ==
    { OneDir, DeepDir, Join(DeepDir, SubName), HollowDir,
      Join(HollowDir, SubName), MixedDir, Join(MixedDir, SubName),
      EmptyDir, OutDir, Join(OutDir, TxtName) }

InitFiles ==
    (Join(OneDir, CsvName) :> Plain("csv", "d1"))
    @@ (Join(Join(DeepDir, SubName), CsvName) :> Plain("csv", "d2"))
    @@ (Join(MixedDir, CsvName) :> Plain("csv", "d3"))
    @@ (Join(MixedDir, TxtName) :> Plain("csv", "d4"))
    @@ (Join(OutDir, CsvName) :> Plain("csv", "d9"))
    @@ (ZipA :> Archive("z1", <<Member(CsvName, "d5")>>))
    @@ (ZipUpper :> Archive("z2", <<Member(Join(SubName, CsvName), "d6")>>))
    @@ (ZipHidden :> Archive("z3", <<Member(CsvName, "d7")>>))

ZipPaths == { ZipA, ZipUpper, ZipHidden, ZipMissing, Join(MixedDir, TxtName), OneDir }
ExtractDirs == { None, OutDir, NewDir }
SrcPaths == { OneDir, DeepDir, HollowDir, MixedDir, EmptyDir,
              Join(OneDir, CsvName), Missing }
TargetDirs == { OutDir, NewDir, MixedDir }
Filenames == { None, CsvName, TxtName, SubName }
Urls == { UrlQuery, UrlSecure, UrlSlash }
LocalPaths == { Join(OneDir, CsvName), Join(MixedDir, TxtName), Missing, OneDir }
DownloadDirs == { DataDir, OutDir, ZipA }
Responses == { Response(FALSE, 200, Plain("csv", "d8")),
               Response(FALSE, 200, Plain("bin", "d7")),
               Response(FALSE, 404, Plain("bin", "d0")),
               Response(TRUE, 0, Plain("bin", "d0")) }
KaggleAnswers ==
    { KaggleAnswer("KaggleApiHTTPError", None) }
    \cup { KaggleAnswer(NoErr, p) : p \in { OneDir, DeepDir, MixedDir, EmptyDir } }
KaggleTargets == { DefaultTarget, OutDir }

\* what os.listdir may return first for directory p
Firsts(f, d, p) ==
    IF Listdir(f, d, p) = {} THEN { None } ELSE Listdir(f, d, p)

----------------------------------------------------------------------------
(* The calls *)

NoCall == Out(InitFiles, InitDirs, NoErr, None, FALSE, 0, NoLog, None, NoLog)

Call(o, x, y, z, fst, resp, kg, out) ==
    [op |-> o, a1 |-> x, a2 |-> y, a3 |-> z, first |-> fst, resp |-> resp,
     kg |-> kg, preFiles |-> files, preDirs |-> dirs, out |-> out]

Init ==
    /\ files = InitFiles
    /\ dirs = InitDirs
    /\ calls = 0
    /\ last = [op |-> "init", a1 |-> None, a2 |-> None, a3 |-> None,
               first |-> None, resp |-> NoResponse,
               kg |-> KaggleAnswer(NoErr, None),
               preFiles |-> InitFiles, preDirs |-> InitDirs, out |-> NoCall]

Finish(c) ==
    /\ files' = c.out.files
    /\ dirs' = c.out.dirs
    /\ last' = c
    /\ calls' = calls + 1

UnzipFile ==
    /\ calls < MaxCalls
    /\ \E zip_path \in ZipPaths, extract_dir \in ExtractDirs :
          Finish(Call("unzip_file", zip_path, extract_dir, None, None,
                      NoResponse, KaggleAnswer(NoErr, None),
                      unzip_file(files, dirs, zip_path, extract_dir)))

MoveToProject ==
    /\ calls < MaxCalls
    /\ \E src_dir \in SrcPaths, target_dir \in TargetDirs, filename \in Filenames :
          \E fst \in Firsts(files, dirs, src_dir) :
             Finish(Call("move_to_project", src_dir, target_dir, filename, fst,
                         NoResponse, KaggleAnswer(NoErr, None),
                         move_to_project(files, dirs, src_dir, target_dir,
                                         filename, fst)))

CsvToDfUrl ==
    /\ calls < MaxCalls
    /\ \E url \in Urls, download_dir \in DownloadDirs, resp \in Responses :
          Finish(Call("csv_to_df", url, download_dir, None, None, resp,
                      KaggleAnswer(NoErr, None),
                      csv_to_df(files, dirs, url, download_dir, resp)))

CsvToDfLocal ==
    /\ calls < MaxCalls
    /\ \E path \in LocalPaths :
          Finish(Call("csv_to_df", path, DataDir, None, None, NoResponse,
                      KaggleAnswer(NoErr, None),
                      csv_to_df(files, dirs, path, DataDir, NoResponse)))

ReadKaggleDataset ==
    /\ calls < MaxCalls
    /\ \E target \in KaggleTargets, kg \in KaggleAnswers :
          \E fst \in Firsts(files, dirs, kg.path) :
             Finish(Call("read_kaggle_dataset", DatasetId, target, None, fst,
                         NoResponse, kg,
                         read_kaggle_dataset(files, dirs, DatasetId, target,
                                             kg, fst)))

Next ==
    \/ UnzipFile
    \/ MoveToProject
    \/ CsvToDfUrl
    \/ CsvToDfLocal
    \/ ReadKaggleDataset

Spec == Init /\ [][Next]_vars

TypeOK ==
    /\ calls \in 0..MaxCalls
    /\ \A p \in DOMAIN files : p \notin dirs

----------------------------------------------------------------------------
(* Vocabulary of the properties *)

\* the name ends with .zip in any mix of cases
HasZipSuffix(p) ==
    /\ Len(p) >= 4
    /\ p[Len(p) - 3] = "."
    /\ p[Len(p) - 2] \in {"z", "Z"}
    /\ p[Len(p) - 1] \in {"i", "I"}
    /\ p[Len(p)] \in {"p", "P"}

\* the path without its four-character archive suffix
StripZipSuffix(p) == SubSeq(p, 1, Len(p) - 4)

\* the regular files anywhere below directory p
TreeFiles(f, p) == { x \in DOMAIN f : StartsWith(x, p \o <<Sep>>) }

\* the last call left the file system as it found it
Untouched == last.out.files = last.preFiles /\ last.out.dirs = last.preDirs

\* the extension of p, lower-cased, is one of exts
ExtIn(p, exts) == StrLower(SplitextExt(p)) \in exts

ExtCsv == <<".", "c", "s", "v">>
ExtXls == <<".", "x", "l", "s">>
ExtXlsx == <<".", "x", "l", "s", "x">>

\* the response of the last call reports a failure: the transfer raised,
\* or the status is a client or server error
ResponseFailed == last.resp.exc \/ (last.resp.status \div 100) \in {4, 5}

\* the local file name of a URL: what follows the last "/" of the part of
\* the URL that precedes its first "?"
NameInUrl(u) ==
    LET cut == IF \E i \in 1..Len(u) : u[i] = "?"
               THEN SubSeq(u, 1, (CHOOSE i \in 1..Len(u) :
                                     u[i] = "?" /\ \A j \in 1..(i-1) : u[j] # "?") - 1)
               ELSE u
    IN  SubSeq(cut, RFind(cut, Sep) + 1, Len(cut))

StepNames == <<"download", "locate", "load">>

----------------------------------------------------------------------------
(* C1 *)

\* C1: unzip_file raises FileNotFoundError for every path that is not an
\* existing regular file, whatever its extension, and ValueError for every
\* existing file whose name does not end with .zip (in any case); in both
\* cases the archive is never opened and the file system is left alone.
C1_UnzipRejectsBadPaths ==
    last.op = "unzip_file" =>
       /\ ~IsFile(last.preFiles, last.a1) =>
             /\ last.out.err = "FileNotFoundError"
             /\ ~last.out.extracted
             /\ Untouched
       /\ IsFile(last.preFiles, last.a1) /\ ~HasZipSuffix(last.a1) =>
             /\ last.out.err = "ValueError:notzip"
             /\ ErrClass(last.out.err) = "ValueError"
             /\ ~last.out.extracted
             /\ Untouched

\* an existing file that is not an archive was refused
C1_Witness ==
    /\ last.op = "unzip_file"
    /\ last.a1 = Join(MixedDir, TxtName)
    /\ last.out.err = "ValueError:notzip"

----------------------------------------------------------------------------
(* C2 *)

\* C2: for every valid archive path (an existing, well-formed archive whose
\* name ends with .zip), unzip_file extracts into the caller's directory, or
\* without one into the archive path with its extension stripped; that
\* directory exists afterwards, holds every member of the archive, and is
\* the value returned.
C2_ExtractsEveryValidArchive ==
    ( /\ last.op = "unzip_file"
      /\ IsFile(last.preFiles, last.a1)
      /\ HasZipSuffix(last.a1)
      /\ last.preFiles[last.a1].kind = "zip" ) =>
       LET dir == IF last.a2 = None THEN StripZipSuffix(last.a1) ELSE last.a2
           ms == last.preFiles[last.a1].members
       IN  /\ last.out.err = NoErr
           /\ last.out.ret = dir
           /\ IsDir(last.out.dirs, dir)
           /\ \A i \in 1..Len(ms) :
                 /\ IsFile(last.out.files, Join(dir, ms[i].name))
                 /\ last.out.files[Join(dir, ms[i].name)].data = ms[i].data

----------------------------------------------------------------------------
(* C3 *)

\* C3: for a source directory whose tree holds exactly one file, at any
\* depth, move_to_project without a filename copies that file into the
\* target directory under its own basename, with its content, and returns
\* that path.
C3_OnlyFileAtAnyDepthIsCopied ==
    ( /\ last.op = "move_to_project"
      /\ ~Truthy(last.a3)
      /\ IsDir(last.preDirs, last.a1)
      /\ Cardinality(TreeFiles(last.preFiles, last.a1)) = 1 ) =>
       LET x == CHOOSE x \in TreeFiles(last.preFiles, last.a1) : TRUE
       IN  /\ last.out.err = NoErr
           /\ last.out.ret = Join(last.a2, Basename(x))
           /\ IsFile(last.out.files, last.out.ret)
           /\ last.out.files[last.out.ret] = last.preFiles[x]

----------------------------------------------------------------------------
(* C4 *)

\* C4: with a filename X, move_to_project on a directory whose tree holds a
\* file named X returns the path of a copy named X with the content of the
\* original; when no file of the tree is named X it raises
\* FileNotFoundError and copies nothing.
C4_NamedFileCopiedOrNotFound ==
    ( /\ last.op = "move_to_project"
      /\ Truthy(last.a3)
      /\ IsDir(last.preDirs, last.a1) ) =>
       LET named == { x \in TreeFiles(last.preFiles, last.a1) : Basename(x) = last.a3 }
       IN  IF named # {}
           THEN /\ last.out.err = NoErr
                /\ Basename(last.out.ret) = last.a3
                /\ IsFile(last.out.files, last.out.ret)
                /\ \E x \in named : last.out.files[last.out.ret] = last.preFiles[x]
           ELSE /\ last.out.err = "FileNotFoundError"
                /\ last.out.files = last.preFiles

----------------------------------------------------------------------------
(* C5 *)

\* C5 as stated: when the source is a single existing file, a filename that
\* differs from the source's basename gives FileNotFoundError, and otherwise
\* the file is copied into the target directory.
C5_FileSourceProceeds ==
    ( /\ last.op = "move_to_project"
      /\ IsFile(last.preFiles, last.a1) ) =>
       IF Truthy(last.a3) /\ last.a3 # Basename(last.a1)
       THEN last.out.err = "FileNotFoundError"
       ELSE /\ last.out.err = NoErr
            /\ IsFile(last.out.files, Join(last.a2, Basename(last.a1)))
            /\ last.out.files[Join(last.a2, Basename(last.a1))] = last.preFiles[last.a1]

\* C5 as amended: when the source is a single existing file, move_to_project
\* raises FileNotFoundError whatever the filename argument (none, matching
\* or not), and leaves the file system alone.
C5_FileSourceAlwaysNotFound ==
    ( /\ last.op = "move_to_project"
      /\ IsFile(last.preFiles, last.a1) ) =>
       /\ last.out.err = "FileNotFoundError"
       /\ Untouched

\* a file source was refused although the filename matched its basename
C5_Witness ==
    /\ last.op = "move_to_project"
    /\ IsFile(last.preFiles, last.a1)
    /\ last.a3 = Basename(last.a1)
    /\ last.out.err = "FileNotFoundError"

----------------------------------------------------------------------------
(* C6 *)

\* C6: move_to_project raises FileNotFoundError, and nothing else, when the
\* source path does not exist or is a directory with no file anywhere in its
\* tree (empty subdirectories included); no file is copied.
C6_NoFilesIsNotFound ==
    ( /\ last.op = "move_to_project"
      /\ \/ ~Exists(last.preFiles, last.preDirs, last.a1)
         \/ /\ IsDir(last.preDirs, last.a1)
            /\ TreeFiles(last.preFiles, last.a1) = {} ) =>
       /\ last.out.err = "FileNotFoundError"
       /\ last.out.files = last.preFiles

----------------------------------------------------------------------------
(* C7 *)

\* C7: after a successful move_to_project the selected file is still in the
\* source with its content, the target directory exists, the returned path
\* is the target directory joined with the file's basename, and the file at
\* that path holds the content of the source.
C7_CopyNotMove ==
    ( /\ last.op = "move_to_project"
      /\ last.out.err = NoErr ) =>
       /\ IsDir(last.out.dirs, last.a2)
       /\ \E x \in TreeFiles(last.preFiles, last.a1) :
             /\ IsFile(last.out.files, x)
             /\ last.out.files[x] = last.preFiles[x]
             /\ last.out.ret = Join(last.a2, Basename(x))
             /\ IsFile(last.out.files, last.out.ret)
             /\ last.out.files[last.out.ret] = last.preFiles[x]

----------------------------------------------------------------------------
(* C8 *)

\* C8 as stated: in local-path mode an existing file with the .csv
\* extension is parsed as CSV, and an existing file whose extension is
\* neither .csv nor a spreadsheet extension is refused with ValueError
\* without being parsed.
C8_DispatchOnExtension ==
    ( /\ last.op = "csv_to_df"
      /\ ~IsUrl(last.a1)
      /\ IsFile(last.preFiles, last.a1) ) =>
       /\ ExtIn(last.a1, {ExtCsv}) => last.out.parsed = <<last.a1>>
       /\ ~ExtIn(last.a1, {ExtCsv, ExtXls, ExtXlsx}) =>
             /\ ErrClass(last.out.err) = "ValueError"
             /\ last.out.parsed = <<>>

\* C8 as amended: in local-path mode csv_to_df does not look at the
\* extension: every existing file is handed to the CSV parser, and returns
\* the table of its content when that parses; a path that is not an existing
\* file is refused with ValueError without being parsed.  Nothing is
\* downloaded and the file system is left alone.
C8_LocalFilesParsedAsCsv ==
    ( /\ last.op = "csv_to_df"
      /\ ~IsUrl(last.a1) ) =>
       /\ last.out.gets = 0
       /\ Untouched
       /\ IF IsFile(last.preFiles, last.a1)
          THEN /\ last.out.parsed = <<last.a1>>
               /\ last.preFiles[last.a1].kind = "csv" =>
                     /\ last.out.err = NoErr
                     /\ last.out.ret = Table(last.preFiles[last.a1])
          ELSE /\ last.out.err = "ValueError:input"
               /\ last.out.parsed = <<>>

\* a file with the .txt extension was parsed as CSV and returned as a table
C8_Witness ==
    /\ last.op = "csv_to_df"
    /\ last.a1 = Join(MixedDir, TxtName)
    /\ last.out.parsed = <<last.a1>>
    /\ last.out.err = NoErr

----------------------------------------------------------------------------
(* C9 *)

\* C9: in URL mode csv_to_df never issues more than one GET, and issues it
\* unless the download directory could not be created; the local path is the
\* download directory joined with the name in the URL, query string
\* stripped; a failing response (or a transfer that raises) gives the
\* download ValueError, with no file written and nothing parsed; a file is
\* written and parsed only after a successful response, and then it is the
\* local path that holds the body of the response and is parsed.
C9_UrlDownload ==
    ( /\ last.op = "csv_to_df"
      /\ IsUrl(last.a1) ) =>
       LET local == Join(last.a2, NameInUrl(last.a1))
       IN  /\ last.out.gets <= 1
           /\ IsDir(last.out.dirs, last.a2) => last.out.gets = 1
           /\ (last.out.gets = 1 /\ ResponseFailed) =>
                 /\ last.out.err = "ValueError:download"
                 /\ last.out.files = last.preFiles
                 /\ last.out.wrote = None
                 /\ last.out.parsed = <<>>
           /\ (last.out.files # last.preFiles \/ last.out.parsed # <<>>) =>
                 /\ ~ResponseFailed
                 /\ last.out.gets = 1
                 /\ last.out.wrote = local
                 /\ last.out.parsed = <<local>>
                 /\ Dirname(local) = last.a2
                 /\ IsFile(last.out.files, local)
                 /\ last.out.files[local] = last.resp.content
                 /\ \A x \in DOMAIN last.preFiles :
                       x # local => /\ IsFile(last.out.files, x)
                                    /\ last.out.files[x] = last.preFiles[x]
           /\ last.out.err = NoErr =>
                 /\ last.out.parsed = <<local>>
                 /\ last.out.ret = Table(last.resp.content)

\* a URL with a query string answered 404: download error, nothing written
C9_Witness ==
    /\ last.op = "csv_to_df"
    /\ last.a1 = UrlQuery
    /\ last.resp.status = 404
    /\ last.out.gets = 1
    /\ last.out.err = "ValueError:download"

----------------------------------------------------------------------------
(* C10 *)

\* C10: read_kaggle_dataset runs download, locate, load in that order; each
\* step runs only if the one before returned, and on the value it returned;
\* the steps are move_to_project on the downloaded path and csv_to_df on the
\* copied file; the call ends with the error of the step that raised,
\* unchanged, and no step runs after it.
C10_OrchestratorSequential ==
    last.op = "read_kaggle_dataset" =>
       LET tr == last.out.trace
           n == Len(tr)
           mv == move_to_project(last.preFiles, last.preDirs, last.kg.path,
                                 last.a2, None, last.first)
           ld == csv_to_df(mv.files, mv.dirs, mv.ret, DataDir, NoResponse)
       IN  /\ n \in 1..3
           /\ \A i \in 1..n : tr[i].step = StepNames[i]
           /\ \A i \in 1..(n - 1) : tr[i].err = NoErr /\ tr[i + 1].arg = tr[i].ret
           /\ tr[1].err = last.kg.err
           /\ n < 3 => tr[n].err # NoErr
           /\ last.out.err = tr[n].err
           /\ n = 1 => Untouched /\ last.out.parsed = <<>>
           /\ n >= 2 => /\ tr[1].ret = last.kg.path
                        /\ tr[2].err = mv.err
                        /\ tr[2].ret = mv.ret
           /\ n = 2 => last.out.parsed = <<>> /\ last.out.files = last.preFiles
           /\ n = 3 => /\ tr[3].err = ld.err
                       /\ last.out.ret = ld.ret
                       /\ last.out.parsed = ld.parsed
                       /\ last.out.files = ld.files

\* all three steps ran and the table of the copied file came back
C10_Witness ==
    /\ last.op = "read_kaggle_dataset"
    /\ Len(last.out.trace) = 3
    /\ last.out.err = NoErr
    /\ last.out.parsed = <<last.out.trace[2].ret>>

====
